---- MODULE Spec2Model ----
(***************************************************************************)
(* sql-migrator: the migration engine (processes.Migrator), the ledger     *)
(* table schema_migrations (storage.PostgresStorage) and the advisory lock.*)
(*                                                                         *)
(* Every tool invocation (app.runMigrations / app.runSingleCommand) is a   *)
(* process that builds a fresh Migrator, runs one operation and exits.     *)
(* Each call to the store (Lock, Unlock, Select..., InsertMigration,       *)
(* Migrate) or to a Go migration procedure is one atomic step.             *)
(***************************************************************************)
EXTENDS Integers, Sequences, FiniteSets, TLC

\* ---------------------------------------------------------------- bounds
\* Largest number of migration definitions a run is started with.
MaxN == 3
\* Tool invocations in one behaviour, one after the other.
MaxRuns == 3
\* Files in the migration directory before the Application is first called.
MaxFiles == 1
\* Calls of the Application in one behaviour, one after the other.
MaxCalls == 2
\* InsertMigration calls made on the stores directly in one behaviour.
MaxInserts == 3
\* Migration definitions of the two tools whose progress is followed.
MaxLive == 1

\* ------------------------------------------------------------- constants
Procs == {"p1", "p2"}
NoProc == "nobody"

StatusProcess == "process"
StatusSuccess == "success"
StatusError == "error"
StatusCancellation == "cancellation"
StatusCancel == "cancel"
Statuses == {StatusProcess, StatusSuccess, StatusError, StatusCancellation, StatusCancel}

\* Values returned to the caller of an operation (nil is "nil").
Nil == "nil"
ErrMigrationUp == "error processes up"
ErrMigrationDown == "error processes down"
ErrMigrationRedo == "error processes redo"
ErrGetStatus == "error db status"
ErrGetVersion == "error db version"
ErrUnexpectedMigrationVersion == "unexpected processes version"
ErrMigrationNotFound == "processes not found"
\* An error of the database driver (connection lost, constraint violated).
ErrStore == "store error"
\* An error returned by a migration's own SQL or Go procedure.
ErrAction == "action error"
\* A Go run-time panic (index out of range) that nothing recovers.
Panic == "panic: index out of range"

Ops == {"Up", "Down", "Redo", "Status", "DbVersion"}

\* Outcomes of one store call, and of one migration action.  An action is
\* empty (no SQL text and no Go procedure), SQL text or a Go procedure.
StoreOk == {"ok"}
StoreMayFail == {"ok", "fail"}
ActionOutcomes == {"empty", "sql_ok", "sql_fail", "go_ok", "go_fail"}

\* The name of the i-th migration file handed to Migrator.Create.
DefName(i) == <<"create_users", "add_email", "add_index", "add_orders", "add_items">>[i]

\* ------------------------------------------------------ storage.Migration
\* Migrator.Create: the definition list of a fresh Migrator with n entries.
Create(n) ==
  [i \in 1..n |-> [Version |-> i, Name |-> DefName(i), Status |-> "", StatusChangeTime |-> 0]]

\* ------------------------------------------------- storage.PostgresStorage
Max(S) == CHOOSE x \in S : \A y \in S : y <= x

\* SELECT ... WHERE Status = $1 ORDER BY Version DESC LIMIT 1
SelectLastMigrationByStatus(table, status) ==
  LET rows == {r \in table : r.Status = status}
  IN IF status \notin Statuses THEN [err |-> "unexpected status", found |-> FALSE, Version |-> 0]
     ELSE IF rows = {} THEN [err |-> ErrMigrationNotFound, found |-> FALSE, Version |-> 0]
     ELSE [err |-> Nil, found |-> TRUE, Version |-> Max({r.Version : r \in rows})]

\* MockSqlStorage.SelectLastMigrationByStatus: the slice is scanned from its
\* end for the first entry with the status.
MockSelectLastMigrationByStatus(list, status) ==
  LET at == {i \in 1..Len(list) : list[i].Status = status}
  IN IF at = {} THEN [err |-> ErrMigrationNotFound, found |-> FALSE, Version |-> 0]
     ELSE [err |-> Nil, found |-> TRUE, Version |-> list[Max(at)].Version]

\* MockSqlStorage.InsertMigration: append to the slice.
MockInsertMigration(list, m) == [err |-> Nil, list |-> Append(list, m)]

\* Mutant of InsertMigration: the table has no primary key, so the insert
\* of a version that is there under another name goes through.
InsertMigrationNoPrimaryKey(table, m) ==
  IF \E r \in table : r.Version = m.Version /\ r.Name = m.Name
  THEN [err |-> Nil,
        table |-> {IF r.Version = m.Version /\ r.Name = m.Name
                   THEN [r EXCEPT !.Status = m.Status, !.StatusChangeTime = m.StatusChangeTime]
                   ELSE r : r \in table}]
  ELSE [err |-> Nil, table |-> table \cup {m}]

\* The DO block of InsertMigration on a table whose primary key is Version:
\* update the row with this Version and Name, else insert; the insert
\* violates the primary key when the Version is there under another name.
InsertMigration(table, m) ==
  IF \E r \in table : r.Version = m.Version /\ r.Name = m.Name
  THEN [err |-> Nil,
        table |-> {IF r.Version = m.Version /\ r.Name = m.Name
                   THEN [r EXCEPT !.Status = m.Status, !.StatusChangeTime = m.StatusChangeTime]
                   ELSE r : r \in table}]
  ELSE IF \E r \in table : r.Version = m.Version
  THEN [err |-> ErrStore, table |-> table]
  ELSE [err |-> Nil, table |-> table \cup {m}]

\* SELECT ... ORDER BY Version DESC: the versions in the order of the rows.
RECURSIVE SelectMigrations(_)
SelectMigrations(table) ==
  IF table = {} THEN <<>>
  ELSE LET top == CHOOSE r \in table : \A q \in table : q.Version <= r.Version
       IN <<top>> \o SelectMigrations(table \ {top})

\* ------------------------------------------------ the migration directory
\* A file name is the sequence of its characters; a file is its name and
\* what it holds: "" (nothing), "sql" (SQL text) or "go" (a Go program).
File(name, text) == [name |-> name, text |-> text]

\* The characters file names are made of, in the order of their codes.
Alphabet ==
  <<".", "0", "1", "2", "3", "4", "5", "6", "7", "8", "9", "_",
    "a", "b", "c", "d", "e", "f", "g", "h", "i", "j", "k", "l", "m",
    "n", "o", "p", "q", "r", "s", "t", "u", "v", "w", "x", "y", "z">>
Codes == [c \in {Alphabet[i] : i \in 1..Len(Alphabet)} |->
            CHOOSE i \in 1..Len(Alphabet) : Alphabet[i] = c]
Code(c) == Codes[c]
IsDigit(c) == c \in {"0", "1", "2", "3", "4", "5", "6", "7", "8", "9"}
DigitValue(c) == Code(c) - Code("0")

\* strings.Compare on file names: os.ReadDir returns the entries sorted.
RECURSIVE Less(_, _)
Less(a, b) ==
  IF b = <<>> THEN FALSE
  ELSE IF a = <<>> THEN TRUE
  ELSE IF Head(a) # Head(b) THEN Code(Head(a)) < Code(Head(b))
  ELSE Less(Tail(a), Tail(b))

RECURSIVE ReadDir(_)
ReadDir(dir) ==
  IF dir = {} THEN <<>>
  ELSE LET first == CHOOSE f \in dir : \A g \in dir : g = f \/ Less(f.name, g.name)
       IN <<first>> \o ReadDir(dir \ {first})

\* regGetVersion.FindString, `^\d+`: the longest run of digits at the start.
RECURSIVE FindVersion(_)
FindVersion(name) ==
  IF name = <<>> \/ ~IsDigit(Head(name)) THEN <<>>
  ELSE <<Head(name)>> \o FindVersion(Tail(name))

\* The digits of the largest int (64 bits).
MaxIntDigits ==
  <<"9", "2", "2", "3", "3", "7", "2", "0", "3", "6", "8", "5", "4", "7", "7", "5", "8", "0", "7">>

RECURSIVE TrimZeros(_)
TrimZeros(digits) ==
  IF digits # <<>> /\ Head(digits) = "0" THEN TrimZeros(Tail(digits)) ELSE digits

\* The value of a digit string is out of the range of int.
OutOfRange(digits) ==
  LET d == TrimZeros(digits)
  IN Len(d) > Len(MaxIntDigits) \/ (Len(d) = Len(MaxIntDigits) /\ Less(MaxIntDigits, d))

RECURSIVE Value(_)
Value(digits) ==
  IF digits = <<>> THEN 0
  ELSE 10 * Value(SubSeq(digits, 1, Len(digits) - 1)) + DigitValue(digits[Len(digits)])

\* strconv.Atoi on a string of digits: the value, or a range error.  The
\* prefixes in range that the directories here hold have at most six digits.
Atoi(digits) ==
  IF OutOfRange(digits) THEN [err |-> TRUE, val |-> 0]
  ELSE [err |-> FALSE, val |-> Value(digits)]

\* strconv.Itoa, and fmt.Sprintf("%05d", v): at least five digits, zeros first.
RECURSIVE Itoa(_)
Itoa(v) ==
  IF v < 10 THEN <<Alphabet[Code("0") + v]>>
  ELSE Itoa(v \div 10) \o <<Alphabet[Code("0") + (v % 10)]>>
RECURSIVE PadZeros(_, _)
PadZeros(digits, width) == IF Len(digits) >= width THEN digits ELSE PadZeros(<<"0">> \o digits, width)
Sprintf05d(v) == PadZeros(Itoa(v), 5)

\* strings.Split(name, "_").
RECURSIVE Split(_)
Split(name) ==
  IF \A i \in 1..Len(name) : name[i] # "_" THEN <<name>>
  ELSE LET i == CHOOSE j \in 1..Len(name) : name[j] = "_" /\ \A k \in 1..(j - 1) : name[k] # "_"
       IN <<SubSeq(name, 1, i - 1)>> \o Split(SubSeq(name, i + 1, Len(name)))

\* The endings of migration files the regular expressions look for.
regGetUpMigration == <<"_", "u", "p", ".", "s", "q", "l">>
regGetDownMigration == <<"_", "d", "o", "w", "n", ".", "s", "q", "l">>
regGetUpGoMigration == <<"_", "u", "p", ".", "g", "o">>
regGetDownGoMigration == <<"_", "d", "o", "w", "n", ".", "g", "o">>

\* regGetUpMigration and the like, `^.+_up\.sql$`: the name ends with the
\* ending and has something before it.
MatchString(ending, name) ==
  /\ Len(name) > Len(ending)
  /\ SubSeq(name, Len(name) - Len(ending) + 1, Len(name)) = ending

\* getLastVersion: the highest numeric prefix of the entries, 0 when no entry
\* has one, -1 when a prefix is not an int.
getLastVersion(dir) ==
  LET versions == {FindVersion(f.name) : f \in dir} \ {<<>>}
  IN IF \E d \in versions : Atoi(d).err THEN -1
     ELSE IF versions = {} THEN 0
     ELSE Max({Atoi(d).val : d \in versions} \cup {0})

\* os.WriteFile: the file is created, or replaced when the name is there.
WriteFile(dir, f) == {g \in dir : g.name # f.name} \cup {f}

\* createMigrationFiles: an empty up and down file for "sql", two Go programs
\* for "go", an error and no file for any other type.
createMigrationFiles(dir, version, name, migrationType) ==
  LET stem == Sprintf05d(version) \o <<"_">> \o name
  IN IF migrationType = "sql"
     THEN [err |-> Nil,
           dir |-> WriteFile(WriteFile(dir, File(stem \o regGetUpMigration, "")),
                             File(stem \o regGetDownMigration, ""))]
     ELSE IF migrationType = "go"
     THEN [err |-> Nil,
           dir |-> WriteFile(WriteFile(dir, File(stem \o regGetUpGoMigration, "go")),
                             File(stem \o regGetDownGoMigration, "go"))]
     ELSE [err |-> "unsupported migration type", dir |-> dir]

\* Mutant of ApplicationCreateStep: the version found is used as it is.
ApplicationCreateStepNoIncrement(dir, name, migrationType) ==
  LET lastVersion == getLastVersion(dir)
  IN IF lastVersion < 0 THEN [err |-> "failed to parse version", dir |-> dir]
     ELSE createMigrationFiles(dir, lastVersion, name, migrationType)

\* Application.Create: the directory afterwards, and what has been logged.
ApplicationCreateStep(dir, name, migrationType) ==
  LET lastVersion == getLastVersion(dir)
  IN IF lastVersion < 0 THEN [err |-> "failed to parse version", dir |-> dir]
     ELSE createMigrationFiles(dir, lastVersion + 1, name, migrationType)

ErrInvalidMigrationName == "invalid migration name"
ErrRange == "value out of range"

\* getMigrations, one entry: the map with the file's migration put in.
\* Up and Down are SQL text ("" when there is none), UpGo and DownGo tell
\* whether a Go procedure is set.
PutMigration(migrations, version, name, f) ==
  LET old == IF version \in DOMAIN migrations THEN migrations[version]
             ELSE [Version |-> version, Name |-> name, Up |-> "", Down |-> "",
                   UpGo |-> FALSE, DownGo |-> FALSE]
      new == IF MatchString(regGetUpMigration, f.name) THEN [old EXCEPT !.Up = f.text]
             ELSE IF MatchString(regGetDownMigration, f.name) THEN [old EXCEPT !.Down = f.text]
             ELSE IF MatchString(regGetUpGoMigration, f.name) THEN [old EXCEPT !.UpGo = TRUE]
             ELSE [old EXCEPT !.DownGo = TRUE]
  IN [v \in DOMAIN migrations \cup {version} |-> IF v = version THEN new ELSE migrations[v]]

\* getMigrations, the loop over the sorted entries.
RECURSIVE ReadMigrations(_, _)
ReadMigrations(files, migrations) ==
  IF files = <<>> THEN [err |-> Nil, migrations |-> migrations]
  ELSE LET f == Head(files)
           strVersion == FindVersion(f.name)
           parts == Split(f.name)
       IN IF strVersion = <<>> THEN ReadMigrations(Tail(files), migrations)
          ELSE IF Atoi(strVersion).err THEN [err |-> ErrRange, migrations |-> <<>>]
          ELSE IF Len(parts) # 3 THEN [err |-> ErrInvalidMigrationName, migrations |-> <<>>]
          ELSE IF \A reg \in {regGetUpMigration, regGetDownMigration,
                                regGetUpGoMigration, regGetDownGoMigration} :
                    ~MatchString(reg, f.name)
          THEN [err |-> ErrInvalidMigrationName, migrations |-> <<>>]
          ELSE ReadMigrations(Tail(files),
                              PutMigration(migrations, Atoi(strVersion).val, parts[2], f))

getMigrations(dir) == ReadMigrations(ReadDir(dir), <<>>)

VARIABLES
  ledger,     \* the rows of schema_migrations
  lock,       \* the holder of advisory lock 123456, or NoProc
  clock,      \* time.Now()
  runs,       \* the number of tool invocations started so far
  lastEffect, \* the process that last wrote the ledger or ran an action
  proc,       \* per invocation: the Migrator and the position in its code
  migrationDir, \* the files of the migration directory
  app,        \* the last call of the Application: its arguments and what it found
  mock        \* the migrations slice of the MockSqlStorage

vars == <<ledger, lock, clock, runs, lastEffect, proc, migrationDir, app, mock>>

\* The Application before its first call.
AppIdle ==
  [op |-> "none", name |-> <<>>, type |-> "", dir |-> {}, ledger |-> {}, err |-> Nil]

\* A process before its first invocation.
Idle(p) ==
  [id |-> p, pc |-> "idle", op |-> "none", migrations |-> <<>>,
   lastVersion |-> 0, idx |-> 0, err |-> Nil, ret |-> Nil,
   acts |-> <<>>, writes |-> <<>>, out |-> <<>>, pre |-> {},
   faulted |-> FALSE, interleaved |-> FALSE, locks |-> <<>>]

\* What one step of process p reads and writes: the shared store and p's own
\* record.  Every step below maps such a view to the view after the step.
View(p) ==
  [ledger |-> ledger, lock |-> lock, clock |-> clock, lastEffect |-> lastEffect,
   me |-> proc[p]]

N(s) == Len(s.me.migrations)

\* Bookkeeping of an effect (a ledger write or an executed action) of s.me:
\* it is interleaved when another process had an effect since this
\* invocation's previous one.
Effect(s) ==
  [s EXCEPT !.lastEffect = s.me.id,
            !.me.interleaved = @ \/ ((s.me.writes # <<>> \/ s.me.acts # <<>>)
                                       /\ s.lastEffect # s.me.id)]

\* migration.SetStatus(status); migration.SetStatusChangeTime(time.Now());
\* m.storage.InsertMigration(ctx, migration).  The error is left in me.err.
WriteStatus(s, status, out) ==
  LET m == [s.me.migrations[s.me.idx] EXCEPT !.Status = status, !.StatusChangeTime = s.clock]
      r == IF out = "ok" THEN InsertMigration(s.ledger, m)
           ELSE [err |-> ErrStore, table |-> s.ledger]
      e == Effect(s)
  IN [e EXCEPT !.ledger = r.table,
               !.clock = s.clock + 1,
               !.me.migrations[s.me.idx] = m,
               !.me.faulted = @ \/ r.err # Nil,
               !.me.writes = Append(@, [Version |-> m.Version, Name |-> m.Name,
                                         Status |-> status, err |-> r.err]),
               !.me.err = r.err]

\* Mutant of RunAction: an empty action is handed to Migrate, which rejects
\* the empty statement.
RunActionExecutesEmpty(s, dir, out) ==
  LET ok == out \in {"sql_ok", "go_ok"}
      kind == IF out = "empty" THEN "empty" ELSE IF out \in {"sql_ok", "sql_fail"} THEN "sql" ELSE "go"
      e == Effect(s)
  IN [e EXCEPT !.me.acts = Append(@, [dir |-> dir, Version |-> s.me.migrations[s.me.idx].Version,
                                       kind |-> kind, ok |-> ok]),
               !.me.err = IF ok THEN Nil ELSE ErrAction]

\* The migration's SQL text or Go procedure is run (or skipped when empty).
RunAction(s, dir, out) ==
  LET ok == out \in {"empty", "sql_ok", "go_ok"}
      kind == IF out = "empty" THEN "empty" ELSE IF out \in {"sql_ok", "sql_fail"} THEN "sql" ELSE "go"
      e == IF kind = "empty" THEN s ELSE Effect(s)
  IN [e EXCEPT !.me.acts = Append(@, [dir |-> dir, Version |-> s.me.migrations[s.me.idx].Version,
                                       kind |-> kind, ok |-> ok]),
               !.me.err = IF ok THEN Nil ELSE ErrAction]

\* app.runMigrations / app.runSingleCommand: a fresh Migrator, Create for
\* every definition (none for Status and DbVersion), Connect, the operation.
BeginStep(s, op, n) ==
  [s EXCEPT !.me = [Idle(s.me.id) EXCEPT
      !.pc = IF op \in {"Up", "Down", "Redo"} THEN "Lock" ELSE op,
      !.op = op,
      !.migrations = IF op \in {"Up", "Down", "Redo"} THEN Create(n) ELSE <<>>,
      !.pre = s.ledger]]

\* The calls of Lock and Unlock an invocation has made, and how each ended.
Called(s, call, out) == [s EXCEPT !.me.locks = Append(@, [call |-> call, out |-> out])]

\* Mutant of LockStep: the error of Lock is logged and the operation goes on.
LockStepIgnoresFailure(s, out) ==
  LET c == Called(s, "Lock", out)
  IN IF out # "ok"
     THEN [c EXCEPT !.me.faulted = TRUE,
                    !.me.pc = IF s.me.op = "Up" THEN "UpSelect" ELSE "DownSelect"]
     ELSE [c EXCEPT !.lock = s.me.id,
                    !.me.pc = IF s.me.op = "Up" THEN "UpSelect" ELSE "DownSelect"]

\* Mutant of LockStep: the release is deferred before the error is looked at.
LockStepDefersFirst(s, out) ==
  LET c == Called(s, "Lock", out)
  IN IF out # "ok"
     THEN [c EXCEPT !.me.ret = ErrStore, !.me.faulted = TRUE, !.me.pc = "Unlock"]
     ELSE [c EXCEPT !.lock = s.me.id,
                    !.me.pc = IF s.me.op = "Up" THEN "UpSelect" ELSE "DownSelect"]

\* Up and Down: m.storage.Lock(ctx), then defer m.storage.Unlock(ctx).
LockStep(s, out) ==
  LET c == Called(s, "Lock", out)
  IN IF out # "ok"
     THEN [c EXCEPT !.me.ret = ErrStore, !.me.faulted = TRUE, !.me.pc = "returned"]
     ELSE [c EXCEPT !.lock = s.me.id,
                    !.me.pc = IF s.me.op = "Up" THEN "UpSelect" ELSE "DownSelect"]

\* Mutant of UpLoop: the loop bound is one too small.
UpLoopStopsEarly(s, err) ==
  IF err # Nil THEN [s EXCEPT !.me.ret = ErrMigrationUp, !.me.pc = "Unlock"]
  ELSE IF s.me.idx < N(s) - 1 THEN [s EXCEPT !.me.idx = @ + 1, !.me.pc = "upInsertProcess"]
  ELSE [s EXCEPT !.me.ret = Nil, !.me.pc = "Unlock"]

\* Mutant of UpLoop: the error of upMigration is looked at after the loop.
UpLoopGoesOn(s, err) ==
  IF s.me.idx < N(s) THEN [s EXCEPT !.me.idx = @ + 1, !.me.pc = "upInsertProcess"]
  ELSE [s EXCEPT !.me.ret = IF err # Nil THEN ErrMigrationUp ELSE Nil, !.me.pc = "Unlock"]

\* Mutant of UpLoop: the loop steps by two while it can.
UpLoopSkipsOne(s, err) ==
  IF err # Nil THEN [s EXCEPT !.me.ret = ErrMigrationUp, !.me.pc = "Unlock"]
  ELSE IF s.me.idx + 2 <= N(s) THEN [s EXCEPT !.me.idx = @ + 2, !.me.pc = "upInsertProcess"]
  ELSE IF s.me.idx < N(s) THEN [s EXCEPT !.me.idx = @ + 1, !.me.pc = "upInsertProcess"]
  ELSE [s EXCEPT !.me.ret = Nil, !.me.pc = "Unlock"]

\* Up, the for loop: the next definition, or the end of the batch.
UpLoop(s, err) ==
  IF err # Nil THEN [s EXCEPT !.me.ret = ErrMigrationUp, !.me.pc = "Unlock"]
  ELSE IF s.me.idx < N(s) THEN [s EXCEPT !.me.idx = @ + 1, !.me.pc = "upInsertProcess"]
  ELSE [s EXCEPT !.me.ret = Nil, !.me.pc = "Unlock"]

\* Mutant of RedoReturn: the error of upMigration is logged and dropped.
RedoReturnDropsError(s, err) ==
  [s EXCEPT !.me.ret = Nil, !.me.pc = "returned"]

\* Redo after its upMigration: the error is replaced by ErrMigrationRedo.
RedoReturn(s, err) ==
  [s EXCEPT !.me.ret = IF err # Nil THEN ErrMigrationRedo ELSE Nil, !.me.pc = "returned"]

upMigrationReturn(s, err) ==
  IF s.me.op = "Up" THEN UpLoop(s, err) ELSE RedoReturn(s, err)

\* Down after its downMigration.
downMigrationReturn(s, err) ==
  [s EXCEPT !.me.ret = IF err # Nil THEN ErrMigrationDown ELSE Nil, !.me.pc = "Unlock"]

\* The check `lastMigration != nil && lastMigration.GetVersion()-1 > len(m.migrations)`.
Unexpected(r, n) == r.found /\ r.Version - 1 > n

\* Mutant of UpSelectStep: the loop starts at 0, not at lastVersion.
UpSelectStepFromStart(s, out) ==
  LET r == SelectLastMigrationByStatus(s.ledger, StatusSuccess)
      lastVersion == IF r.found THEN r.Version ELSE 0
  IN IF out # "ok"
     THEN [s EXCEPT !.me.ret = ErrStore, !.me.faulted = TRUE, !.me.pc = "Unlock"]
     ELSE IF Unexpected(r, N(s))
     THEN [s EXCEPT !.me.lastVersion = lastVersion,
                    !.me.ret = ErrUnexpectedMigrationVersion, !.me.pc = "Unlock"]
     ELSE IF 0 < N(s)
     THEN [s EXCEPT !.me.lastVersion = lastVersion, !.me.idx = 1,
                    !.me.pc = "upInsertProcess"]
     ELSE [s EXCEPT !.me.lastVersion = lastVersion, !.me.ret = Nil, !.me.pc = "Unlock"]

\* Mutant of UpSelectStep: the loop starts after the last row of any status.
UpSelectStepAfterLastRow(s, out) ==
  LET r == SelectLastMigrationByStatus(s.ledger, StatusSuccess)
      lastVersion == IF s.ledger = {} THEN 0 ELSE Max({q.Version : q \in s.ledger})
  IN IF out # "ok"
     THEN [s EXCEPT !.me.ret = ErrStore, !.me.faulted = TRUE, !.me.pc = "Unlock"]
     ELSE IF Unexpected(r, N(s))
     THEN [s EXCEPT !.me.lastVersion = lastVersion,
                    !.me.ret = ErrUnexpectedMigrationVersion, !.me.pc = "Unlock"]
     ELSE IF lastVersion < N(s)
     THEN [s EXCEPT !.me.lastVersion = lastVersion, !.me.idx = lastVersion + 1,
                    !.me.pc = "upInsertProcess"]
     ELSE [s EXCEPT !.me.lastVersion = lastVersion, !.me.ret = Nil, !.me.pc = "Unlock"]

\* Up: the last applied version, the version check, the start of the loop.
UpSelectStep(s, out) ==
  LET r == SelectLastMigrationByStatus(s.ledger, StatusSuccess)
      lastVersion == IF r.found THEN r.Version ELSE 0
  IN IF out # "ok"
     THEN [s EXCEPT !.me.ret = ErrStore, !.me.faulted = TRUE, !.me.pc = "Unlock"]
     ELSE IF Unexpected(r, N(s))
     THEN [s EXCEPT !.me.lastVersion = lastVersion,
                    !.me.ret = ErrUnexpectedMigrationVersion, !.me.pc = "Unlock"]
     ELSE IF lastVersion < N(s)
     THEN [s EXCEPT !.me.lastVersion = lastVersion, !.me.idx = lastVersion + 1,
                    !.me.pc = "upInsertProcess"]
     ELSE [s EXCEPT !.me.lastVersion = lastVersion, !.me.ret = Nil, !.me.pc = "Unlock"]

\* Mutant of upInsertProcessStep: the error of the write is only logged.
upInsertProcessStepIgnoresError(s, out) ==
  LET w == WriteStatus(s, StatusProcess, out)
  IN [w EXCEPT !.me.pc = "upAction"]

\* upMigration: the write of "process".
upInsertProcessStep(s, out) ==
  LET w == WriteStatus(s, StatusProcess, out)
  IN IF w.me.err # Nil THEN upMigrationReturn(w, w.me.err)
     ELSE [w EXCEPT !.me.pc = "upAction"]

\* upMigration: upGo(ctx), or m.storage.Migrate(ctx, sql), or neither.
upActionStep(s, out) ==
  LET a == RunAction(s, "up", out)
  IN [a EXCEPT !.me.pc = IF a.me.err # Nil THEN "upInsertError" ELSE "upInsertSuccess"]

\* Mutant of upInsertErrorStep: the status written is "cancel".
upInsertErrorStepWrongStatus(s, out) ==
  LET w == WriteStatus(s, StatusCancel, out)
  IN upMigrationReturn([w EXCEPT !.me.err = ErrAction], ErrAction)

\* upMigration and downMigration of the earlier package migration after a
\* failed Migrate: the error returned is that of the write of "error" when
\* the write fails, else that of Migrate.
migration_upMigration(err, errStatus) == IF errStatus # Nil THEN errStatus ELSE err

\* upMigration after a failed action: the write of "error", whose own error
\* is dropped; the action's error is returned.
upInsertErrorStep(s, out) ==
  LET w == WriteStatus(s, StatusError, out)
  IN upMigrationReturn([w EXCEPT !.me.err = ErrAction], ErrAction)

\* upMigration after the action: the write of "success".
upInsertSuccessStep(s, out) ==
  LET w == WriteStatus(s, StatusSuccess, out)
  IN upMigrationReturn(w, w.me.err)

\* Mutant of DownSelectStep: a select that finds nothing is no error.
DownSelectStepNothingIsFine(s, out) ==
  LET r == SelectLastMigrationByStatus(s.ledger, StatusSuccess)
      downMigrationIndex == r.Version - 1
  IN IF out # "ok"
     THEN [s EXCEPT !.me.ret = ErrStore, !.me.faulted = TRUE, !.me.pc = "Unlock"]
     ELSE IF ~r.found
     THEN [s EXCEPT !.me.ret = Nil, !.me.pc = "Unlock"]
     ELSE IF Unexpected(r, N(s))
     THEN [s EXCEPT !.me.lastVersion = r.Version,
                    !.me.ret = ErrUnexpectedMigrationVersion, !.me.pc = "Unlock"]
     ELSE IF downMigrationIndex >= N(s)
     THEN [s EXCEPT !.me.lastVersion = r.Version, !.me.ret = Panic, !.me.pc = "Unlock"]
     ELSE [s EXCEPT !.me.lastVersion = r.Version, !.me.idx = downMigrationIndex + 1,
                    !.me.pc = "downInsertCancellation"]

\* Mutant of DownSelectStep: with nothing applied the first definition is
\* rolled back.
DownSelectStepRollsBackFirst(s, out) ==
  LET r == SelectLastMigrationByStatus(s.ledger, StatusSuccess)
      downMigrationIndex == r.Version - 1
  IN IF out # "ok"
     THEN [s EXCEPT !.me.ret = ErrStore, !.me.faulted = TRUE, !.me.pc = "Unlock"]
     ELSE IF ~r.found /\ N(s) = 0
     THEN [s EXCEPT !.me.ret = ErrMigrationNotFound, !.me.pc = "Unlock"]
     ELSE IF ~r.found
     THEN [s EXCEPT !.me.idx = 1, !.me.pc = "downInsertCancellation"]
     ELSE IF Unexpected(r, N(s))
     THEN [s EXCEPT !.me.lastVersion = r.Version,
                    !.me.ret = ErrUnexpectedMigrationVersion, !.me.pc = "Unlock"]
     ELSE IF downMigrationIndex >= N(s)
     THEN [s EXCEPT !.me.lastVersion = r.Version, !.me.ret = Panic, !.me.pc = "Unlock"]
     ELSE [s EXCEPT !.me.lastVersion = r.Version, !.me.idx = downMigrationIndex + 1,
                    !.me.pc = "downInsertCancellation"]

\* Mutant of DownSelectStep: the first definition is rolled back, not the
\* last applied one.
DownSelectStepRollsBackOldest(s, out) ==
  LET r == SelectLastMigrationByStatus(s.ledger, StatusSuccess)
      downMigrationIndex == r.Version - 1
  IN IF out # "ok"
     THEN [s EXCEPT !.me.ret = ErrStore, !.me.faulted = TRUE, !.me.pc = "Unlock"]
     ELSE IF ~r.found
     THEN [s EXCEPT !.me.ret = ErrMigrationNotFound, !.me.pc = "Unlock"]
     ELSE IF Unexpected(r, N(s))
     THEN [s EXCEPT !.me.lastVersion = r.Version,
                    !.me.ret = ErrUnexpectedMigrationVersion, !.me.pc = "Unlock"]
     ELSE IF downMigrationIndex >= N(s)
     THEN [s EXCEPT !.me.lastVersion = r.Version, !.me.ret = Panic, !.me.pc = "Unlock"]
     ELSE [s EXCEPT !.me.lastVersion = r.Version, !.me.idx = 1,
                    !.me.pc = "downInsertCancellation"]

\* Mutant of DownSelectStep: with nothing applied Down does not return but
\* asks for the lock once more, which it holds itself.
DownSelectStepLocksAgain(s, out) ==
  LET r == SelectLastMigrationByStatus(s.ledger, StatusSuccess)
      downMigrationIndex == r.Version - 1
  IN IF out # "ok"
     THEN [s EXCEPT !.me.ret = ErrStore, !.me.faulted = TRUE, !.me.pc = "Unlock"]
     ELSE IF ~r.found
     THEN [s EXCEPT !.me.pc = "Lock"]
     ELSE IF Unexpected(r, N(s))
     THEN [s EXCEPT !.me.lastVersion = r.Version,
                    !.me.ret = ErrUnexpectedMigrationVersion, !.me.pc = "Unlock"]
     ELSE IF downMigrationIndex >= N(s)
     THEN [s EXCEPT !.me.lastVersion = r.Version, !.me.ret = Panic, !.me.pc = "Unlock"]
     ELSE [s EXCEPT !.me.lastVersion = r.Version, !.me.idx = downMigrationIndex + 1,
                    !.me.pc = "downInsertCancellation"]

\* Down (also as the first half of Redo): the last applied version, the
\* version check and the index into the definition list.
DownSelectStep(s, out) ==
  LET r == SelectLastMigrationByStatus(s.ledger, StatusSuccess)
      downMigrationIndex == r.Version - 1
  IN IF out # "ok"
     THEN [s EXCEPT !.me.ret = ErrStore, !.me.faulted = TRUE, !.me.pc = "Unlock"]
     ELSE IF ~r.found
     THEN [s EXCEPT !.me.ret = ErrMigrationNotFound, !.me.pc = "Unlock"]
     ELSE IF Unexpected(r, N(s))
     THEN [s EXCEPT !.me.lastVersion = r.Version,
                    !.me.ret = ErrUnexpectedMigrationVersion, !.me.pc = "Unlock"]
     ELSE IF downMigrationIndex >= N(s)
     THEN [s EXCEPT !.me.lastVersion = r.Version, !.me.ret = Panic, !.me.pc = "Unlock"]
     ELSE [s EXCEPT !.me.lastVersion = r.Version, !.me.idx = downMigrationIndex + 1,
                    !.me.pc = "downInsertCancellation"]

\* downMigration: the write of "cancellation".
downInsertCancellationStep(s, out) ==
  LET w == WriteStatus(s, StatusCancellation, out)
  IN IF w.me.err # Nil THEN downMigrationReturn(w, w.me.err)
     ELSE [w EXCEPT !.me.pc = "downAction"]

\* downMigration: downGo(ctx), or m.storage.Migrate(ctx, sql), or neither.
downActionStep(s, out) ==
  LET a == RunAction(s, "down", out)
  IN [a EXCEPT !.me.pc = IF a.me.err # Nil THEN "downInsertError" ELSE "downInsertCancel"]

\* downMigration after a failed action: the write of "error", error dropped.
\* Mutant of downInsertErrorStep: after a failed down action the row is put
\* back to "success".
downInsertErrorStepRestores(s, out) ==
  LET w == WriteStatus(s, StatusSuccess, out)
  IN downMigrationReturn([w EXCEPT !.me.err = ErrAction], ErrAction)

downInsertErrorStep(s, out) ==
  LET w == WriteStatus(s, StatusError, out)
  IN downMigrationReturn([w EXCEPT !.me.err = ErrAction], ErrAction)

\* Mutant of downInsertCancelStep: "cancellation" is written once more.
downInsertCancelStepWrongStatus(s, out) ==
  LET w == WriteStatus(s, StatusCancellation, out)
  IN downMigrationReturn(w, w.me.err)

\* downMigration after the action: the write of "cancel".
downInsertCancelStep(s, out) ==
  LET w == WriteStatus(s, StatusCancel, out)
  IN downMigrationReturn(w, w.me.err)

\* Mutant of UnlockStep: Unlock is a call at the end of the path that
\* returns nil, not a deferred one.
UnlockStepOnSuccessOnly(s, out) ==
  LET c == IF s.me.ret = Nil THEN Called(s, "Unlock", out) ELSE s
      u == IF s.me.ret = Nil /\ out = "ok" /\ s.lock = s.me.id THEN [c EXCEPT !.lock = NoProc]
           ELSE [c EXCEPT !.me.faulted = @ \/ (s.me.ret = Nil /\ out # "ok")]
  IN [u EXCEPT !.me.pc = IF s.me.op = "Redo" /\ s.me.ret = Nil THEN "RedoSelect" ELSE "returned"]

\* Mutant of UnlockStep: Redo does not look at the error of its Down.
UnlockStepRedoGoesOn(s, out) ==
  LET c == Called(s, "Unlock", out)
      u == IF out = "ok" /\ s.lock = s.me.id THEN [c EXCEPT !.lock = NoProc]
           ELSE [c EXCEPT !.me.faulted = @ \/ out # "ok"]
  IN [u EXCEPT !.me.pc = IF s.me.op = "Redo" THEN "RedoSelect" ELSE "returned"]

\* The deferred m.storage.Unlock(ctx) of Up and Down, and their return.  A
\* failed Unlock leaves the lock with the session.  Redo goes on after a
\* Down that returned nil.
UnlockStep(s, out) ==
  LET c == Called(s, "Unlock", out)
      u == IF out = "ok" /\ s.lock = s.me.id THEN [c EXCEPT !.lock = NoProc]
           ELSE [c EXCEPT !.me.faulted = @ \/ out # "ok"]
  IN [u EXCEPT !.me.pc = IF s.me.op = "Redo" /\ s.me.ret = Nil THEN "RedoSelect" ELSE "returned"]

\* Mutant of RedoSelectStep: the index is the version Down has read, not
\* the one read after it.
RedoSelectStepStaleVersion(s, out) ==
  LET r == SelectLastMigrationByStatus(s.ledger, StatusSuccess)
      lastVersion == s.me.lastVersion
  IN IF out # "ok"
     THEN [s EXCEPT !.me.ret = ErrStore, !.me.faulted = TRUE, !.me.pc = "returned"]
     ELSE IF Unexpected(r, N(s))
     THEN [s EXCEPT !.me.ret = ErrUnexpectedMigrationVersion, !.me.pc = "returned"]
     ELSE IF lastVersion >= N(s)
     THEN [s EXCEPT !.me.ret = Panic, !.me.pc = "returned"]
     ELSE [s EXCEPT !.me.idx = lastVersion + 1, !.me.pc = "upInsertProcess"]

\* Redo after Down: the last applied version, the version check, the index
\* m.migrations[lastVersion], then upMigration.
RedoSelectStep(s, out) ==
  LET r == SelectLastMigrationByStatus(s.ledger, StatusSuccess)
      lastVersion == IF r.found THEN r.Version ELSE 0
  IN IF out # "ok"
     THEN [s EXCEPT !.me.ret = ErrStore, !.me.faulted = TRUE, !.me.pc = "returned"]
     ELSE IF Unexpected(r, N(s))
     THEN [s EXCEPT !.me.lastVersion = lastVersion,
                    !.me.ret = ErrUnexpectedMigrationVersion, !.me.pc = "returned"]
     ELSE IF lastVersion >= N(s)
     THEN [s EXCEPT !.me.lastVersion = lastVersion, !.me.ret = Panic, !.me.pc = "returned"]
     ELSE [s EXCEPT !.me.lastVersion = lastVersion, !.me.idx = lastVersion + 1,
                    !.me.pc = "upInsertProcess"]

\* Mutant of StatusStep: the table is emptied (DeleteMigrations) once read.
StatusStepTruncates(s, out) ==
  IF out # "ok" \/ s.ledger = {}
  THEN [s EXCEPT !.me.ret = ErrGetStatus, !.me.faulted = @ \/ out # "ok", !.me.pc = "returned"]
  ELSE [s EXCEPT !.me.out = SelectMigrations(s.ledger), !.ledger = {},
                 !.me.ret = Nil, !.me.pc = "returned"]

\* Status: SelectMigrations fails on an empty table as on a driver error.
StatusStep(s, out) ==
  IF out # "ok" \/ s.ledger = {}
  THEN [s EXCEPT !.me.ret = ErrGetStatus, !.me.faulted = @ \/ out # "ok", !.me.pc = "returned"]
  ELSE [s EXCEPT !.me.out = SelectMigrations(s.ledger), !.me.ret = Nil, !.me.pc = "returned"]

\* Mutant of DbVersionStep: the last row of any status is reported.
DbVersionStepAnyStatus(s, out) ==
  LET v == IF s.ledger = {} THEN 0 ELSE Max({r.Version : r \in s.ledger})
  IN IF out # "ok"
     THEN [s EXCEPT !.me.ret = ErrGetVersion, !.me.faulted = TRUE, !.me.pc = "returned"]
     ELSE [s EXCEPT !.me.lastVersion = v, !.me.out = <<v>>, !.me.ret = Nil, !.me.pc = "returned"]

\* DbVersion: the version of the last "success" row, 0 when there is none.
DbVersionStep(s, out) ==
  LET r == SelectLastMigrationByStatus(s.ledger, StatusSuccess)
  IN IF out # "ok"
     THEN [s EXCEPT !.me.ret = ErrGetVersion, !.me.faulted = TRUE, !.me.pc = "returned"]
     ELSE [s EXCEPT !.me.lastVersion = IF r.found THEN r.Version ELSE 0,
                    !.me.out = <<IF r.found THEN r.Version ELSE 0>>,
                    !.me.ret = Nil, !.me.pc = "returned"]

\* The deferred migrator.Close(ctx) of the application: the pool is closed,
\* which ends the session and with it any advisory lock it still holds.
CloseStep(s) ==
  [s EXCEPT !.lock = IF s.lock = s.me.id THEN NoProc ELSE @, !.me.pc = "done"]

\* The step process s.me is at, with `out` the outcome of the call it makes.
Step(s, out) ==
  CASE s.me.pc = "Lock" -> LockStep(s, out)
    [] s.me.pc = "UpSelect" -> UpSelectStep(s, out)
    [] s.me.pc = "upInsertProcess" -> upInsertProcessStep(s, out)
    [] s.me.pc = "upAction" -> upActionStep(s, out)
    [] s.me.pc = "upInsertError" -> upInsertErrorStep(s, out)
    [] s.me.pc = "upInsertSuccess" -> upInsertSuccessStep(s, out)
    [] s.me.pc = "DownSelect" -> DownSelectStep(s, out)
    [] s.me.pc = "downInsertCancellation" -> downInsertCancellationStep(s, out)
    [] s.me.pc = "downAction" -> downActionStep(s, out)
    [] s.me.pc = "downInsertError" -> downInsertErrorStep(s, out)
    [] s.me.pc = "downInsertCancel" -> downInsertCancelStep(s, out)
    [] s.me.pc = "Unlock" -> UnlockStep(s, out)
    [] s.me.pc = "RedoSelect" -> RedoSelectStep(s, out)
    [] s.me.pc = "Status" -> StatusStep(s, out)
    [] s.me.pc = "DbVersion" -> DbVersionStep(s, out)
    [] s.me.pc = "returned" -> CloseStep(s)
    [] OTHER -> s

\* One whole invocation run alone (nobody else holds the lock) against a
\* store that answers: every step in turn until the process has exited.
\* act[dir][v] is how the up or down action of version v ends.
RECURSIVE Run(_, _)
Run(s, act) ==
  IF s.me.pc \in {"idle", "done"} THEN s
  ELSE Run(Step(s, IF s.me.pc = "upAction" THEN act.up[s.me.idx]
                   ELSE IF s.me.pc = "downAction" THEN act.down[s.me.idx]
                   ELSE "ok"), act)

\* Every action of every version ends as `out`.
Always(out) == [up |-> [v \in 1..MaxN |-> out], down |-> [v \in 1..MaxN |-> out]]

\* ------------------------------------------------------------- actions
Store(p, r) ==
  /\ ledger' = r.ledger
  /\ lock' = r.lock
  /\ clock' = r.clock
  /\ lastEffect' = r.lastEffect
  /\ proc' = [proc EXCEPT ![p] = r.me]

Apply(p, r) == Store(p, r) /\ UNCHANGED <<migrationDir, app, mock>>

Begin(p, E) ==
  /\ proc[p].pc \in E.from
  /\ runs < E.runs
  /\ runs' = runs + 1
  /\ \E op \in Ops, n \in E.sizes : Apply(p, BeginStep(View(p), op, n))

Lock(p, E) ==
  /\ UNCHANGED runs
  /\ proc[p].pc = "Lock"
  /\ \E out \in E.store : (out = "ok" => lock = NoProc) /\ Apply(p, LockStep(View(p), out))

UpSelect(p, E) ==
  /\ UNCHANGED runs
  /\ proc[p].pc = "UpSelect"
  /\ \E out \in E.store : Apply(p, UpSelectStep(View(p), out))

upInsertProcess(p, E) ==
  /\ UNCHANGED runs
  /\ proc[p].pc = "upInsertProcess"
  /\ \E out \in E.store : Apply(p, upInsertProcessStep(View(p), out))

upAction(p, E) ==
  /\ UNCHANGED runs
  /\ proc[p].pc = "upAction"
  /\ \E out \in E.actions : Apply(p, upActionStep(View(p), out))

upInsertError(p, E) ==
  /\ UNCHANGED runs
  /\ proc[p].pc = "upInsertError"
  /\ \E out \in E.store : Apply(p, upInsertErrorStep(View(p), out))

upInsertSuccess(p, E) ==
  /\ UNCHANGED runs
  /\ proc[p].pc = "upInsertSuccess"
  /\ \E out \in E.store : Apply(p, upInsertSuccessStep(View(p), out))

DownSelect(p, E) ==
  /\ UNCHANGED runs
  /\ proc[p].pc = "DownSelect"
  /\ \E out \in E.store : Apply(p, DownSelectStep(View(p), out))

downInsertCancellation(p, E) ==
  /\ UNCHANGED runs
  /\ proc[p].pc = "downInsertCancellation"
  /\ \E out \in E.store : Apply(p, downInsertCancellationStep(View(p), out))

downAction(p, E) ==
  /\ UNCHANGED runs
  /\ proc[p].pc = "downAction"
  /\ \E out \in E.actions : Apply(p, downActionStep(View(p), out))

downInsertError(p, E) ==
  /\ UNCHANGED runs
  /\ proc[p].pc = "downInsertError"
  /\ \E out \in E.store : Apply(p, downInsertErrorStep(View(p), out))

downInsertCancel(p, E) ==
  /\ UNCHANGED runs
  /\ proc[p].pc = "downInsertCancel"
  /\ \E out \in E.store : Apply(p, downInsertCancelStep(View(p), out))

Unlock(p, E) ==
  /\ UNCHANGED runs
  /\ proc[p].pc = "Unlock"
  /\ \E out \in E.store : Apply(p, UnlockStep(View(p), out))

RedoSelect(p, E) ==
  /\ UNCHANGED runs
  /\ proc[p].pc = "RedoSelect"
  /\ \E out \in E.store : Apply(p, RedoSelectStep(View(p), out))

Status(p, E) ==
  /\ UNCHANGED runs
  /\ proc[p].pc = "Status"
  /\ \E out \in E.store : Apply(p, StatusStep(View(p), out))

DbVersion(p, E) ==
  /\ UNCHANGED runs
  /\ proc[p].pc = "DbVersion"
  /\ \E out \in E.store : Apply(p, DbVersionStep(View(p), out))

Close(p, E) ==
  /\ UNCHANGED runs
  /\ proc[p].pc = "returned"
  /\ Apply(p, CloseStep(View(p)))

Init ==
  /\ ledger = {}
  /\ lock = NoProc
  /\ clock = 1
  /\ runs = 0
  /\ lastEffect = NoProc
  /\ proc = [p \in Procs |-> Idle(p)]
  /\ migrationDir = {}
  /\ app = AppIdle
  /\ mock = <<>>

\* One step of process p in environment E: how store calls may end, how many
\* definitions a run may find, how many invocations are started.
Steps(p, E) ==
  \/ Begin(p, E)
  \/ Lock(p, E)
  \/ UpSelect(p, E)
  \/ upInsertProcess(p, E)
  \/ upAction(p, E)
  \/ upInsertError(p, E)
  \/ upInsertSuccess(p, E)
  \/ DownSelect(p, E)
  \/ downInsertCancellation(p, E)
  \/ downAction(p, E)
  \/ downInsertError(p, E)
  \/ downInsertCancel(p, E)
  \/ Unlock(p, E)
  \/ RedoSelect(p, E)
  \/ Status(p, E)
  \/ DbVersion(p, E)
  \/ Close(p, E)

\* The environments: a process starts its next invocation when the last one
\* has exited, and overlapping tools are each invoked once.
Sequential ==
  [store |-> StoreOk, actions |-> ActionOutcomes, sizes |-> 0..MaxN,
   from |-> {"idle", "done"}, runs |-> MaxRuns]
Unreliable ==
  [store |-> StoreMayFail, actions |-> ActionOutcomes, sizes |-> 0..MaxN,
   from |-> {"idle", "done"}, runs |-> MaxRuns]
Overlapping ==
  [store |-> StoreOk, actions |-> {"sql_ok", "sql_fail"}, sizes |-> {MaxN},
   from |-> {"idle"}, runs |-> Cardinality(Procs)]

\* One tool invocation after the other, against a store that answers.
Next == \E p \in {"p1"} : Steps(p, Sequential)
Spec == Init /\ [][Next]_vars

\* The view of process p on the store the initial state describes.
Fresh(p) ==
  [ledger |-> {}, lock |-> NoProc, clock |-> 1, lastEffect |-> NoProc, me |-> Idle(p)]

\* Overlapping invocations start on the ledger an earlier Up of n definitions
\* has left (the empty ledger for n = 0).
InitOverlap ==
  \E n \in 0..MaxN :
    LET s == Run(BeginStep(Fresh("p1"), "Up", n), Always("sql_ok"))
    IN /\ ledger = s.ledger
       /\ lock = s.lock
       /\ clock = s.clock
       /\ runs = 0
       /\ lastEffect = NoProc
       /\ proc = [p \in Procs |-> Idle(p)]
       /\ migrationDir = {}
       /\ app = AppIdle
       /\ mock = <<>>

\* Two tools at once on the same database and the same migration files.
NextOverlap == \E p \in Procs : Steps(p, Overlapping)
SpecOverlap == InitOverlap /\ [][NextOverlap]_vars

\* One tool invocation after the other; any store call may fail.
NextFaulty == \E p \in {"p1"} : Steps(p, Unreliable)
SpecFaulty == Init /\ [][NextFaulty]_vars

\* ------------------------------------------------------- the Application
\* The names and types Create is called with, and the files a directory may
\* hold before the first call: migrations of versions 1, 2, 7 and 99999, a
\* file without a numeric prefix, a name of four parts, and a prefix of
\* twenty digits.
MigrationNames == {<<"u", "s", "e", "r", "s">>,
                   <<"c", "r", "e", "a", "t", "e", "_", "u", "s", "e", "r", "s">>}
MigrationTypes == {"sql", "go", "python"}
Pool ==
  {File(<<"0", "0", "0", "0", "1", "_", "u", "s", "e", "r", "s">> \o regGetUpMigration, "sql"),
   File(<<"0", "0", "0", "0", "1", "_", "u", "s", "e", "r", "s">> \o regGetDownMigration, "sql"),
   File(<<"0", "0", "0", "0", "2", "_", "o", "r", "d", "e", "r", "s">> \o regGetUpGoMigration, "go"),
   File(<<"7", "_", "x">> \o regGetUpMigration, ""),
   File(<<"9", "9", "9", "9", "9", "_", "l", "a", "s", "t">> \o regGetDownMigration, "sql"),
   File(<<"r", "e", "a", "d", "m", "e", ".", "m", "d">>, "sql"),
   File(<<"0", "0", "0", "0", "3", "_", "a", "d", "d", "_", "i", "n", "d", "e", "x">>
          \o regGetUpMigration, "sql"),
   File(<<"9", "9", "9", "9", "9", "9", "9", "9", "9", "9",
          "9", "9", "9", "9", "9", "9", "9", "9", "9", "9", "_", "b", "i", "g">>
          \o regGetUpMigration, "sql")}

\* The orders in which `for _, migration := range migrations` may visit the
\* entries of the map.
Orders(migrations) ==
  LET n == Cardinality(DOMAIN migrations)
  IN {o \in [1..n -> DOMAIN migrations] : \A i, j \in 1..n : o[i] = o[j] => i = j}

\* Migrator.Create for every entry in the order visited.
CreateNamed(migrations, order) ==
  [i \in 1..Len(order) |-> [Version |-> i, Name |-> migrations[order[i]].Name,
                            Status |-> "", StatusChangeTime |-> 0]]

\* How an action ends: an empty one is skipped.
ActionOutcome(text, go, ok) ==
  IF go THEN (IF ok THEN "go_ok" ELSE "go_fail")
  ELSE IF text = "" THEN "empty"
  ELSE IF ok THEN "sql_ok" ELSE "sql_fail"

\* The actions of the definitions in the order visited: the up action of
\* definition failUp fails, the down actions succeed when okDown.
Actions(migrations, order, failUp, okDown) ==
  [up |-> [i \in 1..Len(order) |->
             ActionOutcome(migrations[order[i]].Up, migrations[order[i]].UpGo, i # failUp)],
   down |-> [i \in 1..Len(order) |->
               ActionOutcome(migrations[order[i]].Down, migrations[order[i]].DownGo, okDown)]]

\* runMigrations after getMigrations: the Migrator with its definitions,
\* Connect, the operation, Close.
runMigrationsStep(s, op, migrations, order, act) ==
  Run([BeginStep(s, op, 0) EXCEPT !.me.migrations = CreateNamed(migrations, order)], act)

\* Application.Create.
ApplicationCreate(p, E) ==
  /\ proc[p].pc \in E.from
  /\ runs < E.runs
  /\ runs' = runs + 1
  /\ \E name \in MigrationNames, type \in MigrationTypes :
       LET r == ApplicationCreateStep(migrationDir, name, type)
       IN /\ migrationDir' = r.dir
          /\ app' = [op |-> "Create", name |-> name, type |-> type, dir |-> migrationDir,
                     ledger |-> ledger, err |-> r.err]
  /\ UNCHANGED <<ledger, lock, clock, lastEffect, proc, mock>>

\* Application.Up, Down and Redo: runMigrations.  logger.Fatal ends the
\* process when getMigrations fails.
runMigrations(p, E) ==
  /\ proc[p].pc \in E.from
  /\ runs < E.runs
  /\ runs' = runs + 1
  /\ migrationDir' = migrationDir
  /\ mock' = mock
  /\ \E op \in {"Up", "Down", "Redo"} :
       LET g == getMigrations(migrationDir)
       IN /\ app' = [op |-> op, name |-> <<>>, type |-> "", dir |-> migrationDir,
                     ledger |-> ledger, err |-> g.err]
          /\ IF g.err # Nil
             THEN UNCHANGED <<ledger, lock, clock, lastEffect, proc>>
             ELSE \E order \in Orders(g.migrations),
                     failUp \in 0..Cardinality(DOMAIN g.migrations), okDown \in BOOLEAN :
                    Store(p, runMigrationsStep(View(p), op, g.migrations, order,
                                               Actions(g.migrations, order, failUp, okDown)))

\* Application.Status and DbVersion: runSingleCommand.
runSingleCommand(p, E) ==
  /\ proc[p].pc \in E.from
  /\ runs < E.runs
  /\ runs' = runs + 1
  /\ migrationDir' = migrationDir
  /\ mock' = mock
  /\ \E op \in {"Status", "DbVersion"} :
       /\ app' = [op |-> op, name |-> <<>>, type |-> "", dir |-> migrationDir,
                  ledger |-> ledger, err |-> Nil]
       /\ Store(p, Run(BeginStep(View(p), op, 0), Always("ok")))

\* The tool called again and again on one directory and one database.
InitApp ==
  /\ ledger = {}
  /\ lock = NoProc
  /\ clock = 1
  /\ runs = 0
  /\ lastEffect = NoProc
  /\ proc = [p \in Procs |-> Idle(p)]
  /\ migrationDir \in {d \in SUBSET Pool : Cardinality(d) <= MaxFiles}
  /\ app = AppIdle
  /\ mock = <<>>

Tool ==
  [store |-> StoreOk, actions |-> ActionOutcomes, sizes |-> 0..MaxN,
   from |-> {"idle", "done"}, runs |-> MaxCalls]

NextApp ==
  \/ ApplicationCreate("p1", Tool)
  \/ runMigrations("p1", Tool)
  \/ runSingleCommand("p1", Tool)
SpecApp == InitApp /\ [][NextApp]_vars

\* ------------------------------------------------------------ vocabulary
\* The invocation of the one process of Spec, and where it has returned.
P1 == proc["p1"]
Returned(op) == P1.op = op /\ P1.pc \in {"returned", "done"}

\* The version DbVersion reports on a table.
Reported(table) == DbVersionStep([Fresh("p1") EXCEPT !.ledger = table], "ok").me.out[1]

LastApplied(table) == SelectLastMigrationByStatus(table, StatusSuccess)
AppliedVersions(table) == {r.Version : r \in {q \in table : q.Status = StatusSuccess}}
Rows(table) == {[Version |-> r.Version, Name |-> r.Name, Status |-> r.Status] : r \in table}
StatusAt(table) == {<<r.Version, r.Status>> : r \in table}
AllOk(acts) == \A i \in 1..Len(acts) : acts[i].ok
Order(acts) == [i \in 1..Len(acts) |-> <<acts[i].dir, acts[i].Version>>]

\* ---------------------------------------------------------------- claims
\* C1: an Up over N definitions whose up actions all succeed, started on an
\* empty ledger, leaves exactly the N rows of versions 1..N, all "success",
\* and DbVersion then reports N.
C1_UpAppliesAll ==
  (Returned("Up") /\ P1.pre = {} /\ AllOk(P1.acts))
    => /\ StatusAt(ledger) = {<<v, StatusSuccess>> : v \in 1..Len(P1.migrations)}
       /\ Cardinality(ledger) = Len(P1.migrations)
       /\ Reported(ledger) = Len(P1.migrations)
C1_Witness ==
  /\ Returned("Up") /\ P1.pre = {} /\ AllOk(P1.acts)
  /\ Len(P1.migrations) = MaxN /\ Len(P1.acts) = MaxN /\ P1.ret = Nil

\* C2: an Up on the ledger a fully successful Up of the same N definitions
\* has left writes nothing, runs no action and returns nil.
C2_SecondUpIsNoOp ==
  (Returned("Up") /\ StatusAt(P1.pre) = {<<v, StatusSuccess>> : v \in 1..Len(P1.migrations)})
    => /\ P1.writes = <<>>
       /\ P1.acts = <<>>
       /\ P1.ret = Nil
       /\ ledger = P1.pre
C2_Witness ==
  /\ Returned("Up") /\ Len(P1.migrations) >= 2 /\ P1.ret = Nil
  /\ StatusAt(P1.pre) = {<<v, StatusSuccess>> : v \in 1..Len(P1.migrations)}

\* C3: when the up action of version K fails in an Up started on an empty
\* ledger, Up returns with 1..K-1 "success", K "error", no row above K, and
\* no action of a version above K was run.
C3_FailFast ==
  \A K \in 1..MaxN :
    (Returned("Up") /\ P1.pre = {}
       /\ \E i \in 1..Len(P1.acts) : P1.acts[i].Version = K /\ ~P1.acts[i].ok)
      => /\ StatusAt(ledger) = {<<v, StatusSuccess>> : v \in 1..(K - 1)} \cup {<<K, StatusError>>}
         /\ \A i \in 1..Len(P1.acts) : P1.acts[i].Version <= K
         /\ P1.ret # Nil
C3_Witness ==
  /\ Returned("Up") /\ P1.pre = {} /\ Len(P1.migrations) = 3
  /\ Len(P1.acts) = 2 /\ ~P1.acts[2].ok /\ P1.acts[2].Version = 2

\* C4: two overlapping invocations serialize: no process writes the ledger
\* or runs an action between two effects of another invocation.
C4_Serialized == \A p \in Procs : ~proc[p].interleaved

\* C5: Down with V the highest applied version and a down action that
\* succeeds runs the down action of V only, leaves V's row "cancel" and all
\* other rows as they were, and DbVersion then reports V - 1.
C5_DownOneStep ==
  LET V == LastApplied(P1.pre).Version
  IN (Returned("Down") /\ LastApplied(P1.pre).found /\ V <= Len(P1.migrations) /\ AllOk(P1.acts))
       => /\ Order(P1.acts) = << <<"down", V>> >>
          /\ \E r \in ledger : r.Version = V /\ r.Status = StatusCancel
          /\ {r \in ledger : r.Version # V} = {r \in P1.pre : r.Version # V}
          /\ Cardinality(ledger) = Cardinality(P1.pre)
          /\ Reported(ledger) = V - 1
          /\ P1.ret = Nil
C5_Witness ==
  /\ Returned("Down") /\ LastApplied(P1.pre).Version = 3 /\ Len(P1.migrations) = 3
  /\ AllOk(P1.acts) /\ Reported(ledger) = 2

C7_RedoSameApplied ==
  LET V == LastApplied(P1.pre).Version
  IN (Returned("Redo") /\ LastApplied(P1.pre).found /\ V <= Len(P1.migrations) /\ AllOk(P1.acts))
       => /\ AppliedVersions(ledger) = AppliedVersions(P1.pre)
          /\ Order(P1.acts) = << <<"down", V>>, <<"up", V>> >>
          /\ P1.ret = Nil
C7_Witness ==
  /\ Returned("Redo") /\ LastApplied(P1.pre).Version = 2 /\ Len(P1.migrations) = 3
  /\ AllOk(P1.acts) /\ Len(P1.acts) = 2 /\ P1.acts[1].kind # "empty" /\ P1.acts[2].kind # "empty"

\* Down and then, when Down has returned nil, Up, each run alone on n
\* definitions from the table: the final table, the action steps, success.
DownThenUp(table, n, act) ==
  LET d == Run(BeginStep([Fresh("p1") EXCEPT !.ledger = table], "Down", n), act)
      u == Run(BeginStep(d, "Up", n), act)
  IN IF d.me.ret # Nil
     THEN [ledger |-> d.ledger, acts |-> d.me.acts, ok |-> FALSE]
     ELSE [ledger |-> u.ledger, acts |-> d.me.acts \o u.me.acts, ok |-> u.me.ret = Nil]

\* How the actions ended in the invocation that logged acts, and as `rest`
\* for the actions it did not reach.
Outcome(a) == IF a.kind = "empty" THEN "empty" ELSE IF a.ok THEN a.kind \o "_ok" ELSE a.kind \o "_fail"
Logged(acts, dir, v, rest) ==
  IF \E i \in 1..Len(acts) : acts[i].dir = dir /\ acts[i].Version = v
  THEN Outcome(acts[CHOOSE i \in 1..Len(acts) : acts[i].dir = dir /\ acts[i].Version = v])
  ELSE rest
AsLogged(acts, rest) ==
  [up |-> [v \in 1..MaxN |-> Logged(acts, "up", v, rest)],
   down |-> [v \in 1..MaxN |-> Logged(acts, "down", v, rest)]]

RedoMatchesDownThenUp ==
  \A rest \in ActionOutcomes :
    LET ref == DownThenUp(P1.pre, Len(P1.migrations), AsLogged(P1.acts, rest))
    IN /\ Rows(ledger) = Rows(ref.ledger)
       /\ P1.acts = ref.acts
       /\ (P1.ret = Nil) = ref.ok

\* C8 as stated: from every ledger and for every definition list, Redo ends
\* with the statuses, the action steps and the success or failure of Down
\* followed by Up.
C8_RedoIsDownThenUp == Returned("Redo") => RedoMatchesDownThenUp

\* C8 amended: Redo ends as Down followed by Up does when the version it
\* rolls back is not below the number of definitions (or nothing is
\* applied), so that Up has no later version to go on with.
C8_RedoIsDownThenUpAtEnd ==
  (Returned("Redo")
     /\ (LastApplied(P1.pre).found => LastApplied(P1.pre).Version >= Len(P1.migrations)))
    => RedoMatchesDownThenUp
C8_Witness ==
  /\ Returned("Redo") /\ LastApplied(P1.pre).Version = 2 /\ Len(P1.migrations) = 2
  /\ Len(P1.acts) = 2 /\ P1.ret = Nil

\* C9: Up on a ledger whose highest applied version is above the number N
\* of definitions returns the unexpected-version error, runs no action and
\* writes nothing.
C9_UpRejectsDrift ==
  (Returned("Up") /\ LastApplied(P1.pre).Version > Len(P1.migrations))
    => /\ P1.ret = ErrUnexpectedMigrationVersion
       /\ P1.acts = <<>>
       /\ P1.writes = <<>>

\* C10: Down on a ledger whose highest applied version is above N returns
\* the unexpected-version error, never indexes the definition list out of
\* range, writes nothing and runs no action.
C10_DownRejectsDrift ==
  (Returned("Down") /\ LastApplied(P1.pre).Version > Len(P1.migrations))
    => /\ P1.ret = ErrUnexpectedMigrationVersion
       /\ P1.ret # Panic
       /\ P1.acts = <<>>
       /\ P1.writes = <<>>

\* C11: when an up or down action fails, Up or Down returns the action's own
\* error to its caller.
C11_ActionErrorPropagated ==
  ((Returned("Up") \/ Returned("Down")) /\ ~AllOk(P1.acts)) => P1.ret = ErrAction

\* The outcomes of the Lock and Unlock calls of an invocation.
LockFailed(me) == \E i \in 1..Len(me.locks) : me.locks[i] = [call |-> "Lock", out |-> "fail"]
Acquired(me) == \E i \in 1..Len(me.locks) : me.locks[i] = [call |-> "Lock", out |-> "ok"]
UnlockFailed(me) == \E i \in 1..Len(me.locks) : me.locks[i] = [call |-> "Unlock", out |-> "fail"]

\* C12: an Up, Down or Redo whose Lock call fails returns an error at once:
\* it runs no action, writes no row and leaves the ledger as it was.
C12_LockFailureStopsAll ==
  (P1.op \in {"Up", "Down", "Redo"} /\ LockFailed(P1))
    => /\ P1.pc \in {"returned", "done"}
       /\ P1.ret # Nil
       /\ P1.acts = <<>>
       /\ P1.writes = <<>>
       /\ ledger = P1.pre
C12_Witness ==
  /\ Returned("Redo") /\ LockFailed(P1) /\ LastApplied(P1.pre).found
  /\ Len(P1.migrations) >= LastApplied(P1.pre).Version

\* C13: every Unlock call of an invocation directly follows a Lock call of
\* the same invocation that returned success, and a Lock call that failed is
\* the last lock call the invocation makes.
C13_UnlockPairsWithLock ==
  \A i \in 1..Len(P1.locks) :
    /\ P1.locks[i].call = "Unlock"
         => (i > 1 /\ P1.locks[i - 1] = [call |-> "Lock", out |-> "ok"])
    /\ P1.locks[i] = [call |-> "Lock", out |-> "fail"] => i = Len(P1.locks)
C13_Witness ==
  /\ P1.pc = "done" /\ P1.op = "Down" /\ P1.ret # Nil /\ P1.writes # <<>>
  /\ P1.locks = <<[call |-> "Lock", out |-> "ok"], [call |-> "Unlock", out |-> "ok"]>>

DownDone(me) ==
  \E i \in 1..Len(me.writes) : me.writes[i].Status = StatusCancel /\ me.writes[i].err = Nil

\* C15: a Redo whose Down phase has not ended well runs no up action and
\* writes no "process" row, and it returns the error of Down.
C15_RedoStopsAfterDown ==
  (P1.op = "Redo" /\ ~DownDone(P1))
    => /\ \A i \in 1..Len(P1.acts) : P1.acts[i].dir # "up"
       /\ \A i \in 1..Len(P1.writes) : P1.writes[i].Status # StatusProcess
       /\ P1.pc # "RedoSelect"
       /\ Returned("Redo") => P1.ret \notin {Nil, ErrMigrationRedo}
C15_Witness ==
  /\ Returned("Redo") /\ ~DownDone(P1) /\ Len(P1.acts) = 1 /\ ~P1.acts[1].ok
  /\ P1.acts[1].Version < Len(P1.migrations) /\ P1.ret = ErrMigrationDown

\* C16: Status and DbVersion leave every row of the ledger (version, name,
\* status, time) as it was, write nothing and run no action.
C16_ReadOnly ==
  (Returned("Status") \/ Returned("DbVersion"))
    => /\ ledger = P1.pre
       /\ P1.writes = <<>>
       /\ P1.acts = <<>>
C16_Witness ==
  /\ Returned("Status") /\ Cardinality(P1.pre) >= 2 /\ P1.ret = Nil
  /\ \E r \in P1.pre : r.Status # StatusSuccess

\* C17: Status on an empty ledger returns no error.
C17_StatusEmptyNoError == (Returned("Status") /\ P1.pre = {}) => P1.ret = Nil

\* The highest version with a "success" row, 0 when there is no such row.
HighestApplied(table) ==
  IF AppliedVersions(table) = {} THEN 0
  ELSE CHOOSE v \in AppliedVersions(table) : \A w \in AppliedVersions(table) : w <= v

\* C18: DbVersion returns nil and reports the highest version whose row is
\* "success", 0 when no row is "success".
C18_DbVersionHighestApplied ==
  Returned("DbVersion") => (P1.ret = Nil /\ P1.out = <<HighestApplied(P1.pre)>>)
C18_Witness ==
  /\ Returned("DbVersion") /\ P1.out = <<1>>
  /\ \E r \in P1.pre : r.Version = 2 /\ r.Status = StatusError

\* The values of the numeric prefixes of the files of a directory that are
\* within the range of int, and the highest of them (0 when there is none).
PrefixValues(d) ==
  {Value(FindVersion(f.name)) :
     f \in {g \in d : FindVersion(g.name) # <<>> /\ ~OutOfRange(FindVersion(g.name))}}
HighestPrefix(d) ==
  IF PrefixValues(d) = {} THEN 0
  ELSE CHOOSE v \in PrefixValues(d) : \A w \in PrefixValues(d) : w <= v
AllPrefixesInRange(d) == \A f \in d : ~OutOfRange(FindVersion(f.name))

\* A string of digits is the number v written with zeros in front up to
\* five digits.
ZeroPadded5(digits, v) ==
  /\ Len(digits) >= 5
  /\ Len(digits) > 5 => Head(digits) # "0"
  /\ \A i \in 1..Len(digits) : IsDigit(digits[i])
  /\ Value(digits) = v

\* File f is named <v, five digits>_<name><ending>.
NamedFor(f, v, name, ending) ==
  /\ ZeroPadded5(FindVersion(f.name), v)
  /\ f.name = FindVersion(f.name) \o <<"_">> \o name \o ending

\* The last call of the Application has added exactly an up and a down file
\* of version v and the name it was given, with endings of one of `kinds`.
CreatedPair(v, kinds) ==
  \E up, down \in migrationDir \ app.dir :
    /\ migrationDir = app.dir \cup {up, down}
    /\ \E k \in kinds : NamedFor(up, v, app.name, k[1]) /\ NamedFor(down, v, app.name, k[2])
SqlPair == <<regGetUpMigration, regGetDownMigration>>
GoPair == <<regGetUpGoMigration, regGetDownGoMigration>>

DownAfterOneCreate(name) ==
  /\ app.op = "Down"
  /\ app.ledger = {}
  /\ \E type \in {"sql", "go"} : app.dir = ApplicationCreateStep({}, name, type).dir

EffectPcs ==
  {"upInsertProcess", "upAction", "upInsertError", "upInsertSuccess",
   "downInsertCancellation", "downAction", "downInsertError", "downInsertCancel"}

\* C21: an Up, Down or Redo that is about to write the ledger or to run an
\* action holds the lock, in the re-apply phase of Redo as well.
C21_EffectsUnderLock ==
  \A p \in Procs :
    (proc[p].op \in {"Up", "Down", "Redo"} /\ proc[p].pc \in EffectPcs) => lock = p

\* C22: a Status or DbVersion is never about to read the ledger while
\* another invocation holds the lock, and one that has returned has
\* acquired the lock before it read.
C22_ReadsUnderLock ==
  \A p \in Procs :
    /\ proc[p].pc \in {"Status", "DbVersion"} => lock \in {NoProc, p}
    /\ (proc[p].op \in {"Status", "DbVersion"} /\ proc[p].pc \in {"returned", "done"})
         => Acquired(proc[p])

\* The status of the row of version v, "absent" when there is no such row.
StatusOf(table, v) ==
  IF \E r \in table : r.Version = v THEN (CHOOSE r \in table : r.Version = v).Status
  ELSE "absent"

\* The changes of status the state machine of a version allows.
ClaimedEdges ==
  {<<"absent", StatusProcess>>, <<StatusProcess, StatusSuccess>>, <<StatusProcess, StatusError>>,
   <<StatusSuccess, StatusCancellation>>, <<StatusCancellation, StatusCancel>>,
   <<StatusCancellation, StatusError>>, <<StatusError, StatusProcess>>}

\* Every change of the status of a version in one step is one of `edges`.
ChangesAlong(edges) ==
  \A v \in {r.Version : r \in ledger \cup ledger'} :
    StatusOf(ledger, v) # StatusOf(ledger', v)
      => <<StatusOf(ledger, v), StatusOf(ledger', v)>> \in edges

\* C23 as stated: the status of a version changes only along absent ->
\* process, process -> success, process -> error, success -> cancellation,
\* cancellation -> cancel, cancellation -> error and error -> process.
C23_StateMachine == [][ChangesAlong(ClaimedEdges)]_vars

\* The fresh attempt at a version that was rolled back, or whose rollback
\* has not written its last status.
ReapplyEdges == {<<StatusCancel, StatusProcess>>, <<StatusCancellation, StatusProcess>>}

\* C23 amended: the status of a version changes only along the edges above,
\* cancel -> process and, after a rollback whose last write has failed,
\* cancellation -> process.
C23_StateMachineWithReapply == [][ChangesAlong(ClaimedEdges \cup ReapplyEdges)]_vars
C23_Witness ==
  /\ P1.op = "Up" /\ P1.pc = "done" /\ Len(P1.writes) >= 2
  /\ StatusOf(P1.pre, P1.writes[1].Version) = StatusCancel
  /\ P1.writes[1].Status = StatusProcess /\ P1.writes[1].err = Nil
  /\ StatusOf(ledger, P1.writes[1].Version) = StatusSuccess

\* C24: at most one row of the ledger is "process" or "cancellation".
C24_OneTransient ==
  Cardinality({r \in ledger : r.Status \in {StatusProcess, StatusCancellation}}) <= 1

Last(seq) == seq[Len(seq)]

\* C25: when the context is cancelled while an action of Up or Down runs,
\* so that the action and every store call after it fail, the row of that
\* version ends as "error" and the invocation returns an error.
C25_CancelRecordsFailed ==
  \A op \in {"Up", "Down"} :
    (Returned(op) /\ P1.acts # <<>> /\ ~Last(P1.acts).ok
       /\ Last(P1.writes).Status = StatusError /\ Last(P1.writes).err # Nil
       /\ UnlockFailed(P1))
      => /\ StatusOf(ledger, Last(P1.acts).Version) = StatusError
         /\ P1.ret # Nil

\* The action a first write announces.
Announced(status) == IF status = StatusProcess THEN "up" ELSE "down"

\* C26: when the first write of a step ("process" or "cancellation") fails,
\* it is the last write of the invocation, the action of that step is not
\* run, the step's error is kept and the invocation returns an error.
C26_FirstWriteFailureStops ==
  \A i \in 1..Len(P1.writes) :
    (P1.writes[i].Status \in {StatusProcess, StatusCancellation} /\ P1.writes[i].err # Nil)
      => /\ i = Len(P1.writes)
         /\ \A k \in 1..Len(P1.acts) :
              ~(P1.acts[k].Version = P1.writes[i].Version
                  /\ P1.acts[k].dir = Announced(P1.writes[i].Status))
         /\ P1.err = ErrStore
         /\ P1.pc \in {"Unlock", "returned", "done"}
         /\ P1.ret # Nil
C26_Witness ==
  /\ Returned("Up") /\ Len(P1.migrations) = 3 /\ Len(P1.writes) = 3 /\ Len(P1.acts) = 1
  /\ P1.writes[3].Version = 2 /\ P1.writes[3].Status = StatusProcess
  /\ P1.writes[3].err # Nil /\ P1.ret = ErrMigrationUp

\* C27: in an Up the writes are, for the versions after the last applied one
\* in ascending order and without a gap, "process" and then "success" or
\* "error"; the up actions come in the same order, the action of a version
\* after its "process" write and before its last write; nothing follows an
\* "error".
C27_UpInOrder ==
  P1.op = "Up" =>
    LET w == P1.writes
        a == P1.acts
        L == LastApplied(P1.pre).Version
    IN /\ \A i \in 1..Len(w) :
            /\ w[i].Version = L + ((i + 1) \div 2)
            /\ w[i].Version <= Len(P1.migrations)
            /\ (i % 2 = 1) => w[i].Status = StatusProcess
            /\ (i % 2 = 0) => w[i].Status = (IF a[i \div 2].ok THEN StatusSuccess ELSE StatusError)
            /\ w[i].Status = StatusError => i = Len(w)
       /\ \A k \in 1..Len(a) : a[k].dir = "up" /\ a[k].Version = L + k
       /\ Len(w) \div 2 <= Len(a)
       /\ Len(a) <= (Len(w) + 1) \div 2
C27_Witness ==
  /\ Returned("Up") /\ LastApplied(P1.pre).Version = 1 /\ Len(P1.migrations) = 3
  /\ Len(P1.writes) = 4 /\ Order(P1.acts) = << <<"up", 2>>, <<"up", 3>> >>
  /\ P1.acts[1].kind # "empty"

\* C28: an Up on a ledger with 1..K-1 "success" and K "error", K not above
\* the number of definitions, writes "process" for K first, runs no up
\* action of a version below K, leaves the rows below K as they were and one
\* row for K, "success" or "error".
C28_ResumeAtFailed ==
  \A K \in 1..MaxN :
    (Returned("Up") /\ K <= Len(P1.migrations)
       /\ StatusAt(P1.pre) = {<<v, StatusSuccess>> : v \in 1..(K - 1)} \cup {<<K, StatusError>>})
      => /\ P1.writes # <<>>
         /\ P1.writes[1].Version = K /\ P1.writes[1].Status = StatusProcess
         /\ \A i \in 1..Len(P1.acts) : P1.acts[i].Version >= K
         /\ Cardinality({r \in ledger : r.Version = K}) = 1
         /\ StatusOf(ledger, K) \in {StatusSuccess, StatusError}
         /\ {r \in ledger : r.Version < K} = {r \in P1.pre : r.Version < K}
C28_Witness ==
  /\ Returned("Up") /\ Len(P1.migrations) = 3
  /\ StatusAt(P1.pre) = {<<1, StatusSuccess>>, <<2, StatusError>>}
  /\ StatusAt(ledger) = {<<v, StatusSuccess>> : v \in 1..3}

\* ------------------------------------------------- the order of definitions
\* The tool on a directory that holds the files of versions 1..n and no
\* other version, as its own Create calls leave it, with or without files
\* that are not migrations.
InitOrder ==
  /\ ledger = {}
  /\ lock = NoProc
  /\ clock = 1
  /\ runs = 0
  /\ lastEffect = NoProc
  /\ proc = [p \in Procs |-> Idle(p)]
  /\ migrationDir \in {d \in SUBSET Pool :
                         LET g == getMigrations(d)
                         IN /\ g.err = Nil
                            /\ DOMAIN g.migrations = 1..Cardinality(DOMAIN g.migrations)}
  /\ app = AppIdle
  /\ mock = <<>>
SpecOrder == InitOrder /\ [][NextApp]_vars

\* C29: when Up, Down or Redo of the tool has run on a directory, the
\* definition the engine numbers i is the one read from the files of
\* version i, for every i.
C29_DefinitionsInFileOrder ==
  (app.op \in {"Up", "Down", "Redo"} /\ app.err = Nil)
    => LET g == getMigrations(app.dir)
       IN \A i \in 1..Len(P1.migrations) :
            i \in DOMAIN g.migrations /\ P1.migrations[i].Name = g.migrations[i].Name

\* ------------------------------------------------------ the stores alone
\* The records InsertMigration is called with: two versions, two names.
Records ==
  {[Version |-> v, Name |-> n, Status |-> st, StatusChangeTime |-> clock] :
     v \in 1..2, n \in {DefName(1), DefName(2)}, st \in Statuses}

\* One InsertMigration call with the same record on the table of the
\* PostgresStorage and on the MockSqlStorage.
StoreInsertMigration ==
  /\ Len(mock) < MaxInserts
  /\ \E m \in Records :
       /\ ledger' = InsertMigration(ledger, m).table
       /\ mock' = MockInsertMigration(mock, m).list
  /\ clock' = clock + 1
  /\ UNCHANGED <<lock, runs, lastEffect, proc, migrationDir, app>>

SpecStore == Init /\ [][StoreInsertMigration]_vars

\* C30: after any sequence of InsertMigration calls a store holds at most
\* one record for a version and a name, in the PostgresStorage and in the
\* MockSqlStorage.
C30_OneRecordPerKey ==
  /\ \A r, q \in ledger : (r.Version = q.Version /\ r.Name = q.Name) => r = q
  /\ \A i, j \in 1..Len(mock) :
       (mock[i].Version = mock[j].Version /\ mock[i].Name = mock[j].Name) => i = j

\* The answer a select of the last record by status has to give on records:
\* the highest version among those with the status, not found when none.
IsHighestWith(res, records, status) ==
  LET with == {r.Version : r \in {q \in records : q.Status = status}}
  IN IF with = {} THEN ~res.found /\ res.err = ErrMigrationNotFound
     ELSE res.found /\ res.err = Nil /\ res.Version = Max(with)

\* C31: for every content of a store and each of the five statuses,
\* SelectLastMigrationByStatus returns the highest version among the records
\* with that status and fails with not-found exactly when there is none, in
\* the PostgresStorage and in the MockSqlStorage.
C31_SelectLastIsHighest ==
  \A status \in Statuses :
    /\ IsHighestWith(SelectLastMigrationByStatus(ledger, status), ledger, status)
    /\ IsHighestWith(MockSelectLastMigrationByStatus(mock, status),
                     {mock[i] : i \in 1..Len(mock)}, status)

\* C32: a step whose action is empty runs neither Migrate nor a callable
\* and succeeds: the writes around the i-th action of an invocation are
\* "process" and then "success" (or "cancellation" and then "cancel") for
\* its version, and the row ends with that status.
C32_EmptyActionSucceeds ==
  \A i \in 1..Len(P1.acts) :
    LET a == P1.acts[i]
        first == IF a.dir = "up" THEN StatusProcess ELSE StatusCancellation
        last == IF a.dir = "up" THEN StatusSuccess ELSE StatusCancel
    IN a.kind = "empty"
         => /\ a.ok
            /\ Len(P1.writes) >= 2 * i - 1
            /\ P1.writes[2 * i - 1] = [Version |-> a.Version, Name |-> P1.writes[2 * i - 1].Name,
                                       Status |-> first, err |-> Nil]
            /\ Len(P1.writes) >= 2 * i
                 => P1.writes[2 * i] = [Version |-> a.Version, Name |-> P1.writes[2 * i].Name,
                                        Status |-> last, err |-> Nil]
            /\ (Len(P1.writes) = 2 * i /\ i = Len(P1.acts)) => StatusOf(ledger, a.Version) = last
            /\ (i = Len(P1.acts) /\ Len(P1.writes) = 2 * i - 1)
                 => P1.pc \in {"upInsertSuccess", "downInsertCancel"}
C32_Witness ==
  /\ Returned("Redo") /\ Len(P1.acts) = 2 /\ Len(P1.writes) = 4 /\ P1.ret = Nil
  /\ P1.acts[1].kind = "empty" /\ P1.acts[2].kind = "empty"
  /\ StatusOf(ledger, P1.acts[2].Version) = StatusSuccess

\* ------------------------------------------------------------- liveness
\* Two tools at once, one invocation each, on MaxLive definitions of which
\* some are applied; every store call succeeds, actions succeed or fail.
Fair ==
  [store |-> StoreOk, actions |-> {"sql_ok", "sql_fail"}, sizes |-> {MaxLive},
   from |-> {"idle"}, runs |-> Cardinality(Procs)]
InitLive ==
  \E n \in 0..MaxLive :
    LET s == Run(BeginStep(Fresh("p1"), "Up", n), Always("sql_ok"))
    IN /\ ledger = s.ledger
       /\ lock = s.lock
       /\ clock = s.clock
       /\ runs = 0
       /\ lastEffect = NoProc
       /\ proc = [p \in Procs |-> Idle(p)]
       /\ migrationDir = {}
       /\ app = AppIdle
       /\ mock = <<>>
NextLive == \E p \in Procs : Steps(p, Fair)

\* A step of an invocation of p that has begun.  Every call of the code
\* returns and every process is scheduled, so such a step is taken when it
\* stays possible; pg_advisory_lock returns once the lock is free.
Running(p) == proc[p].pc # "idle" /\ Steps(p, Fair)
SpecLive == InitLive /\ [][NextLive]_vars /\ \A p \in Procs : WF_vars(Running(p))

\* C33: every Up, Down and Redo that has begun returns, and an invocation
\* that waits in Lock while the other process holds the lock gets the lock.
C33_ReturnsAndAcquires ==
  \A p \in Procs :
    /\ (proc[p].op \in {"Up", "Down", "Redo"} /\ proc[p].pc \notin {"returned", "done"})
         ~> (proc[p].pc \in {"returned", "done"})
    /\ (proc[p].pc = "Lock" /\ lock \notin {NoProc, p}) ~> (lock = p)
C33_Witness ==
  /\ P1.pc = "Lock" /\ P1.op = "Up" /\ lock = "p2"
  /\ proc["p2"].op = "Redo" /\ proc["p2"].pc = "downAction"

\* C34: starting from the empty ledger, after any invocations run one after
\* the other, whatever their actions do, the versions with a "success" row
\* are 1..k for some k: no applied version lies above one that is not
\* applied.  No invocation writes a version beyond its definition list.
C34_AppliedIsPrefix ==
  /\ AppliedVersions(ledger) = 1..Cardinality(AppliedVersions(ledger))
  /\ \A i \in 1..Len(P1.writes) : P1.writes[i].Version \in 1..Len(P1.migrations)
C34_Witness ==
  /\ Returned("Up") /\ Len(P1.migrations) = 3 /\ P1.ret = ErrMigrationUp
  /\ StatusOf(P1.pre, 3) = StatusCancel /\ AppliedVersions(P1.pre) = {1, 2}
  /\ AppliedVersions(ledger) = {1, 2} /\ StatusOf(ledger, 3) = StatusError

\* C35: a Redo whose Down phase has rolled back V runs the up action of V
\* and of no other version, and its index m.migrations[lastVersion] is
\* within the definition list, whatever another process does in between.
C35_RedoReappliesSame ==
  \A p \in Procs :
    (proc[p].op = "Redo" /\ DownDone(proc[p]))
      => /\ proc[p].ret # Panic
         /\ \A i \in 1..Len(proc[p].acts) :
              proc[p].acts[i].dir = "up" => proc[p].acts[i].Version = proc[p].acts[1].Version

\* An action of the invocation has failed and the write of "error" that
\* follows it has failed too.
ErrorWriteFailed ==
  /\ P1.op \in {"Up", "Down", "Redo"}
  /\ P1.acts # <<>> /\ ~Last(P1.acts).ok
  /\ P1.writes # <<>> /\ Last(P1.writes).Status = StatusError /\ Last(P1.writes).err # Nil

\* C36: when an action fails and the write of "error" after it fails too,
\* the error of the write is dropped: the step returns the error of the
\* action and the row keeps "process" or "cancellation"; so in the engine
\* and in the upMigration of the earlier package migration.
C36_WriteErrorIgnored ==
  ErrorWriteFailed
    => /\ P1.err = ErrAction
       /\ StatusOf(ledger, Last(P1.acts).Version)
            = (IF Last(P1.acts).dir = "up" THEN StatusProcess ELSE StatusCancellation)
       /\ migration_upMigration(ErrAction, Last(P1.writes).err) = ErrAction

\* Up run alone, all its actions succeeding, on n definitions from the table.
UpAfter(table, n) == Run(BeginStep([Fresh("p1") EXCEPT !.ledger = table], "Up", n), Always("sql_ok"))

\* C37: when the down action of V fails in Down, the row of V becomes
\* "error", DbVersion then reports V - 1, and the next Up runs the up action
\* of V first and applies V again; an Up that starts on a ledger whose
\* version after the last applied one is "error" runs that version first.
C37_FailedDownIsReapplied ==
  /\ (Returned("Down") /\ Len(P1.acts) = 1 /\ ~P1.acts[1].ok)
       => LET V == P1.acts[1].Version
              u == UpAfter(ledger, Len(P1.migrations))
          IN /\ StatusOf(ledger, V) = StatusError
             /\ AppliedVersions(ledger) = 1..(V - 1)
             /\ Reported(ledger) = V - 1
             /\ Order(u.me.acts)[1] = <<"up", V>>
             /\ StatusOf(u.ledger, V) = StatusSuccess
  /\ (P1.op = "Up" /\ P1.acts # <<>>
        /\ StatusOf(P1.pre, LastApplied(P1.pre).Version + 1) = StatusError)
       => Order(P1.acts)[1] = <<"up", LastApplied(P1.pre).Version + 1>>
C37_Witness ==
  /\ Returned("Down") /\ Len(P1.acts) = 1 /\ ~P1.acts[1].ok /\ P1.acts[1].Version = 2
  /\ Len(P1.migrations) = 3 /\ Reported(ledger) = 1 /\ StatusOf(ledger, 2) = StatusError

\* C38: the table of the PostgresStorage holds at most one row for a
\* version, and an InsertMigration for a version that is there under another
\* name fails and leaves the table as it was: the row of a version keeps the
\* name of the first call made for that version (the mock's slice holds the
\* records of all calls) and has the status and time of the last call made
\* for the version under that name.
C38_OneRowPerVersion ==
  /\ \A r, q \in ledger : r.Version = q.Version => r = q
  /\ \A m \in Records :
       (\E r \in ledger : r.Version = m.Version /\ r.Name # m.Name)
         => /\ InsertMigration(ledger, m).err # Nil
            /\ InsertMigration(ledger, m).table = ledger
  /\ {r.Version : r \in ledger} = {mock[i].Version : i \in 1..Len(mock)}
  /\ \A r \in ledger :
       LET calls == {i \in 1..Len(mock) : mock[i].Version = r.Version}
           first == CHOOSE i \in calls : \A k \in calls : i <= k
           same == {i \in calls : mock[i].Name = mock[first].Name}
       IN r = mock[Max(same)]
C38_Witness ==
  /\ Len(mock) = 2 /\ mock[1].Version = mock[2].Version /\ mock[1].Name # mock[2].Name
  /\ ledger = {mock[1]}

\* C39: no field of an element of the definition list is changed while Up,
\* Down, Redo, Status or DbVersion runs: the list stays as Create built it.
C39_DefinitionsReadOnly ==
  P1.op \in {"Up", "Down", "Redo", "Status", "DbVersion"}
    => P1.migrations = Create(Len(P1.migrations))

====
